---- MODULE Spec2Model ----
(***************************************************************************)
(* Model of preprocess_vehicle_data (src/preprocess.py): the ETL pipeline  *)
(* that discovers the daily .xlsx exports of one vehicle, loads them,      *)
(* concatenates them, renames / translates / coerces the columns, drops    *)
(* the rows with a missing required value, sorts by record_time and writes *)
(* the result to a parquet file.                                           *)
(*                                                                         *)
(* Strings are ASCII: the source's Chinese category tokens are written in  *)
(* pinyin and the degree sign of the temperature columns as "(C)".         *)
(***************************************************************************)
EXTENDS Integers, Sequences, FiniteSets

\* ------------------------------------------------------------------ bounds
\* Most files in the input tree.
MaxFiles == 2
\* Most data rows in the whole input tree.
MaxRows == 2
\* Timestamps of the data rows are 1..MaxTime.
MaxTime == 2

\* ------------------------------------------------------------------- cells
\* A spreadsheet cell or a DataFrame value. k is the kind of value:
\*   "num"     a number n
\*   "ts"      a timestamp n (an Excel date cell, or a parsed datetime)
\*   "numstr"  a text cell that spells the number n
\*   "timestr" a text cell that spells the timestamp n
\*   "str"     any other text s
\*   "nan"     the missing-value marker (empty cell, NaN, NaT)
Num(v) == [k |-> "num", n |-> v, s |-> ""]
Ts(t) == [k |-> "ts", n |-> t, s |-> ""]
NumText(v) == [k |-> "numstr", n |-> v, s |-> ""]
TimeText(t) == [k |-> "timestr", n |-> t, s |-> ""]
Text(str) == [k |-> "str", n |-> 0, s |-> str]
NaN == [k |-> "nan", n |-> 0, s |-> ""]

IsNa(cell) == cell.k = "nan"

\* ------------------------------------------------------ the code's tables
\* Source column name -> canonical column name.
cleaned_columns ==
    [c \in {"record_time", "vehicle_state", "charge_state", "pack_voltage(V)",
            "pack_current(A)", "SOC(%)", "max_cell_voltage (V)",
            "min_cell_voltage (V)", "max_probe_temperature (C)",
            "min_probe_temperature (C)"} |->
        CASE c = "record_time" -> "record_time"
          [] c = "vehicle_state" -> "vehicle_state"
          [] c = "charge_state" -> "charge_state"
          [] c = "pack_voltage(V)" -> "pack_voltage"
          [] c = "pack_current(A)" -> "pack_current"
          [] c = "SOC(%)" -> "soc"
          [] c = "max_cell_voltage (V)" -> "max_cell_voltage"
          [] c = "min_cell_voltage (V)" -> "min_cell_voltage"
          [] c = "max_probe_temperature (C)" -> "max_temp"
          [] c = "min_probe_temperature (C)" -> "min_temp"]

vehicle_state_map ==
    [v \in {"cheliang qidong", "xihuo"} |->
        IF v = "cheliang qidong" THEN "Vehicle Start" ELSE "Engine Off"]

charge_state_map ==
    [v \in {"wei chongdian", "tingche chongdian", "chongdian wancheng"} |->
        CASE v = "wei chongdian" -> "Not Charging"
          [] v = "tingche chongdian" -> "Parked Charging"
          [] v = "chongdian wancheng" -> "Charging Complete"]

numeric_cols ==
    {"pack_voltage", "pack_current", "soc", "max_cell_voltage",
     "min_cell_voltage", "max_temp", "min_temp"}


\* dropna with 'record_time' left out of the subset.
DropnaSubsetNumericOnly == numeric_cols

\* The columns dropna looks at: ['record_time'] + numeric_cols.
DropnaSubset == {"record_time"} \cup numeric_cols


\* A translation that keeps a value the table lacks as it is.
MapValueKeep(cell, table) ==
    IF cell.k = "str" /\ cell.s \in DOMAIN table THEN Text(table[cell.s]) ELSE cell

\* ------------------------------------------------------- pandas operations
\* Series.map(dict) on one value: the dict's value for a key, NaN otherwise.
MapValue(cell, table) ==
    IF cell.k = "str" /\ cell.s \in DOMAIN table THEN Text(table[cell.s]) ELSE NaN

\* pd.to_datetime(errors='coerce') on one value.
ToDatetime(cell) ==
    CASE cell.k = "ts" -> Ts(cell.n)
      [] cell.k = "timestr" -> Ts(cell.n)
      [] cell.k = "num" -> Ts(cell.n)
      [] OTHER -> NaN

\* pd.to_numeric(errors='coerce') on one value.
ToNumeric(cell) ==
    CASE cell.k = "num" -> Num(cell.n)
      [] cell.k = "numstr" -> Num(cell.n)
      [] OTHER -> NaN

\* DataFrame.rename(columns=cleaned_columns) on one column name.
RenameCol(c) == IF c \in DOMAIN cleaned_columns THEN cleaned_columns[c] ELSE c

\* A table is [cols: set of column names, rows: sequence of rows]; a row is
\* [idx: its index label, c: column name -> cell].
NoTable == [cols |-> {}, rows |-> <<>>, made |-> FALSE]
Table(cols, rows) == [cols |-> cols, rows |-> rows, made |-> TRUE]

RECURSIVE ConcatRows(_, _)
\* The rows of the batches one after the other, each widened to `cols`
\* (a column the batch lacks is NaN).
ConcatRows(dfs, cols) ==
    IF dfs = <<>> THEN <<>>
    ELSE LET d == Head(dfs)
             wide == [j \in 1..Len(d.rows) |->
                        [c \in cols |->
                            IF c \in d.cols THEN d.rows[j].c[c] ELSE NaN]]
         IN  wide \o ConcatRows(Tail(dfs), cols)

RECURSIVE UnionCols(_)
UnionCols(dfs) ==
    IF dfs = <<>> THEN {} ELSE Head(dfs).cols \cup UnionCols(Tail(dfs))

\* pd.concat(df_list, ignore_index=True).
Concat(dfs) ==
    LET cols == UnionCols(dfs)
        cells == ConcatRows(dfs, cols)
    IN  Table(cols, [j \in 1..Len(cells) |-> [idx |-> j - 1, c |-> cells[j]]])

\* full_df.rename(columns=cleaned_columns, inplace=True).
Rename(df) ==
    LET cols == {RenameCol(c) : c \in df.cols}
        src(d) == CHOOSE c \in df.cols : RenameCol(c) = d
    IN  Table(cols, [j \in 1..Len(df.rows) |->
                       [idx |-> df.rows[j].idx,
                        c |-> [d \in cols |-> df.rows[j].c[src(d)]]]])

MapVehicle(cell) == MapValue(cell, vehicle_state_map)
MapCharge(cell) == MapValue(cell, charge_state_map)

\* The value a column assignment full_df[col] = ... leaves in column d.
Assigned(d, cell) ==
    CASE d = "vehicle_state" -> MapVehicle(cell)
      [] d = "charge_state" -> MapCharge(cell)
      [] d = "record_time" -> ToDatetime(cell)
      [] d \in numeric_cols -> ToNumeric(cell)
      [] OTHER -> cell

\* The column assignments for the columns `cols`, which the table has.
AssignCols(df, cols) ==
    Table(df.cols, [j \in 1..Len(df.rows) |->
                      [idx |-> df.rows[j].idx,
                       c |-> [d \in df.cols |->
                                IF d \in cols THEN Assigned(d, df.rows[j].c[d])
                                ELSE df.rows[j].c[d]]]])

\* The numeric loop: every numeric column coerced.
CoerceNumericCols(df) == AssignCols(df, numeric_cols)


\* dropna(how='all'): a row is kept when any cell of the subset is there.
CompleteAny(row, subset) == \E c \in subset : ~IsNa(row.c[c])

\* A row dropna(subset=...) keeps: no NaN in the subset.
Complete(row, subset) == \A c \in subset : ~IsNa(row.c[c])

\* full_df.dropna(subset=['record_time'] + numeric_cols, inplace=True).
Dropna(df) ==
    LET Keep(r) == Complete(r, DropnaSubset)
    IN  Table(df.cols, SelectSeq(df.rows, Keep))


\* The order sort_index would leave: by index label, not by record_time.
AscendingByIndex(rows) ==
    \A j \in 1..Len(rows) - 1 : rows[j].idx <= rows[j + 1].idx

\* Row order that sort_values(by='record_time', ascending=True) may leave.
Ascending(rows) ==
    \A j \in 1..Len(rows) - 1 :
        rows[j].c["record_time"].n <= rows[j + 1].c["record_time"].n

Permutations(n) ==
    {f \in [1..n -> 1..n] : \A a, b \in 1..n : a # b => f[a] # f[b]}


\* sort_values without inplace=True: the table keeps its order.
SortValuesNotInPlace(rows) == {rows}

\* The outcomes of sort_values(by='record_time') with the default
\* kind='quicksort', which pandas documents as not stable: the rows in some
\* ascending order, rows of equal record_time in any relative order.
SortValues(rows) ==
    {q \in {[j \in 1..Len(rows) |-> rows[f[j]]] : f \in Permutations(Len(rows))} :
        Ascending(q)}

\* full_df.reset_index(drop=True, inplace=True).
ResetIndex(df) ==
    Table(df.cols, [j \in 1..Len(df.rows) |->
                      [idx |-> j - 1, c |-> df.rows[j].c]])

\* What to_parquet(output_filename, index=False) stores: columns and rows,
\* no index.
Parquet(df) == [cols |-> df.cols, rows |-> [j \in 1..Len(df.rows) |-> df.rows[j].c]]
NoOutput == [cols |-> {}, rows |-> <<>>, written |-> FALSE]
Written(p) == [cols |-> p.cols, rows |-> p.rows, written |-> TRUE]

\* ------------------------------------------------------------ input trees
\* The source columns of a complete export.
FullCols == DOMAIN cleaned_columns

\* The header of an export: complete, or lacking the vehicle-state and the
\* pack-voltage column.
ColumnSets == {FullCols, FullCols \ {"vehicle_state", "pack_voltage(V)"}}

\* A data row of an export: the timestamp, the two state cells, the
\* pack-voltage cell and the min-temperature cell as given, the other
\* numeric cells valid.
SourceRow(rt, vs, cs, pv, mt) ==
    [c \in FullCols |->
        CASE c = "record_time" -> rt
          [] c = "vehicle_state" -> vs
          [] c = "charge_state" -> cs
          [] c = "pack_voltage(V)" -> pv
          [] c = "min_probe_temperature (C)" -> mt
          [] OTHER -> Num(1)]

Times == 1..MaxTime

\* The data rows the input trees are built from: a valid row per timestamp,
\* a second valid row at timestamp 1 that differs in its other cells (text
\* cells that parse, a vehicle state the lookup table lacks), a row with an
\* unparseable timestamp and a row with an unparseable number.
SourceRows ==
    {SourceRow(Ts(t), Text("cheliang qidong"), Text("wei chongdian"),
               Num(1), Num(1)) : t \in Times}
    \cup {SourceRow(TimeText(1), Text("xingshi"), Text("tingche chongdian"),
                    NumText(2), Num(1)),
          SourceRow(Text("n/a"), Text("xihuo"), Text("chongdian wancheng"),
                    Num(1), Num(1)),
          SourceRow(Ts(1), NaN, Text("kuaichong"), Text("n/a"), Num(1))}

\* What a cell of a required column can hold: a value, text that does not
\* parse, nothing.
TimeCells == {Ts(1), Text("n/a"), NaN}
NumberCells == {Num(1), Text("n/a"), NaN}

\* The data rows with any combination of such cells in the required columns.
CellRows ==
    {[c \in FullCols |->
        CASE c = "vehicle_state" -> Text("xihuo")
          [] c = "charge_state" -> NaN
          [] c = "record_time" -> rt
          [] OTHER -> num[c]] :
     rt \in TimeCells,
     num \in [FullCols \ {"record_time", "vehicle_state", "charge_state"} -> NumberCells]}

\* A file of the tree: another kind of file, an .xlsx file that read_excel
\* cannot parse, or an export with a header and data rows.
OtherFile == [kind |-> "other", cols |-> {}, rows |-> <<>>]
CorruptFile == [kind |-> "corrupt", cols |-> {}, rows |-> <<>>]
Export(cols, rows) ==
    [kind |-> "xlsx", cols |-> cols,
     rows |-> [j \in 1..Len(rows) |-> [c \in cols |-> rows[j][c]]]]

\* The files before their data rows are filled in.
FileHeads == {OtherFile, CorruptFile} \cup {Export(cols, <<>>) : cols \in ColumnSets}

\* The rows among `rows` that belong to file i, in order.
RECURSIVE RowsOf(_, _, _, _)
RowsOf(i, rows, owner, j) ==
    IF j > Len(rows) THEN <<>>
    ELSE (IF owner[j] = i THEN <<rows[j]>> ELSE <<>>) \o RowsOf(i, rows, owner, j + 1)

\* The input tree, as the sequence of files in the order os.walk yields
\* them: file i has the head heads[i] and the data rows that owner gives it.
InputTree(heads, rows, owner) ==
    [i \in 1..Len(heads) |->
        IF heads[i].kind = "xlsx"
        THEN Export(heads[i].cols, RowsOf(i, rows, owner, 1))
        ELSE heads[i]]

\* ------------------------------------------------------------------- state
VARIABLES
    tree,          \* the input directory tree (files in os.walk order)
    pc,            \* where the function is
    all_files,     \* paths (positions in tree) of the .xlsx files found
    next_file,     \* position in all_files of the file the loop reads next
    df_list,       \* the batches loaded so far
    warnings,      \* paths of the files skipped with a warning
    full_df,       \* the unified table
    initial_rows,  \* len(full_df) before dropna
    rows_dropped,  \* initial_rows - len(full_df) after dropna
    output         \* the parquet file at output_filename

vars == <<tree, pc, all_files, next_file, df_list, warnings, full_df,
          initial_rows, rows_dropped, output>>

\* The stage of the pipeline a program position belongs to.
Stage(p) ==
    CASE p \in {"Loading", "Loaded"} -> "Loading"
      [] p \in {"Rename", "Translate", "CoerceTime", "CoerceNumeric", "Dropna"} ->
            "Normalizing"
      [] p \in {"Sort", "ResetIndex"} -> "Sorting"
      [] OTHER -> p

\* The tree holds at most MaxFiles files with at most MaxRows data rows in
\* all (an export with an incomplete header has a data row), or it is a
\* valid row followed by a row of CellRows in one export.
Init ==
    /\ \/ \E n \in 0..MaxFiles, m \in 0..MaxRows :
            \E heads \in [1..n -> FileHeads], rows \in [1..m -> SourceRows],
               owner \in [1..m -> 1..n] :
               /\ \A j \in 1..m : heads[owner[j]].kind = "xlsx"
               /\ \A j \in 1..m - 1 : owner[j] <= owner[j + 1]
               /\ \A i \in 1..n :
                     (heads[i].kind = "xlsx" /\ heads[i].cols # FullCols)
                        => \E j \in 1..m : owner[j] = i
               /\ tree = InputTree(heads, rows, owner)
       \/ \E row \in CellRows :
            tree = <<Export(FullCols,
                            <<SourceRow(Ts(2), Text("cheliang qidong"),
                                        Text("wei chongdian"), Num(1), Num(1)),
                              row>>)>>
    /\ pc = "Init"
    /\ all_files = <<>>
    /\ next_file = 1
    /\ df_list = <<>>
    /\ warnings = <<>>
    /\ full_df = NoTable
    /\ initial_rows = 0
    /\ rows_dropped = 0
    /\ output = NoOutput

\* ----------------------------------------------------------------- actions
\* The call of preprocess_vehicle_data.
Start ==
    /\ pc = "Init"
    /\ pc' = "Discovering"
    /\ UNCHANGED <<tree, all_files, next_file, df_list, warnings, full_df,
                   initial_rows, rows_dropped, output>>

\* file.endswith('.xlsx')
IsXlsx(file) == file.kind # "other"

RECURSIVE Walk(_, _)
\* The os.walk loop: the paths of the .xlsx files, in walk order.
Walk(t, p) ==
    IF p > Len(t) THEN <<>>
    ELSE (IF IsXlsx(t[p]) THEN <<p>> ELSE <<>>) \o Walk(t, p + 1)

\* `if not all_files`
NoneFound(files) == files = <<>>

\* Lines 13-25: walk the tree; return when no .xlsx file was found.
Discover ==
    /\ pc = "Discovering"
    /\ all_files' = Walk(tree, 1)
    /\ pc' = IF NoneFound(all_files') THEN "Failed" ELSE "Loading"
    /\ UNCHANGED <<tree, next_file, df_list, warnings, full_df, initial_rows,
                   rows_dropped, output>>


\* A reader that returns an empty DataFrame instead of raising.
ReadFailsNever(file) == FALSE

\* pd.read_excel raises on a file it cannot parse.
ReadFails(file) == file.kind = "corrupt"

\* The DataFrame pd.read_excel returns: the export's rows under a fresh
\* RangeIndex.
ReadExcel(file) ==
    Table(file.cols, [j \in 1..Len(file.rows) |-> [idx |-> j - 1, c |-> file.rows[j]]])

\* One iteration of the reading loop, lines 29-35: the batch is appended,
\* or the exception is caught and a warning printed.
LoadFile ==
    /\ pc = "Loading"
    /\ next_file <= Len(all_files)
    /\ LET path == all_files[next_file]
       IN  IF ReadFails(tree[path])
           THEN /\ warnings' = Append(warnings, path)
                /\ df_list' = df_list
           ELSE /\ df_list' = Append(df_list, ReadExcel(tree[path]))
                /\ warnings' = warnings
    /\ next_file' = next_file + 1
    /\ pc' = IF next_file' > Len(all_files) THEN "Loaded" ELSE "Loading"
    /\ UNCHANGED <<tree, all_files, full_df, initial_rows, rows_dropped, output>>


\* The check `if not df_list` left out.
NoneLoadedUnchecked(dfs) == FALSE

\* `if not df_list`
NoneLoaded(dfs) == dfs = <<>>

\* Lines 37-39: return when no batch was loaded.
CheckLoaded ==
    /\ pc = "Loaded"
    /\ pc' = IF NoneLoaded(df_list) THEN "Failed" ELSE "Unifying"
    /\ UNCHANGED <<tree, all_files, next_file, df_list, warnings, full_df,
                   initial_rows, rows_dropped, output>>

\* Lines 41-44.
Unify ==
    /\ pc = "Unifying"
    /\ full_df' = Concat(df_list)
    /\ pc' = "Rename"
    /\ UNCHANGED <<tree, all_files, next_file, df_list, warnings, initial_rows,
                   rows_dropped, output>>

\* Lines 46-59.
RenameColumns ==
    /\ pc = "Rename"
    /\ full_df' = Rename(full_df)
    /\ pc' = "Translate"
    /\ UNCHANGED <<tree, all_files, next_file, df_list, warnings, initial_rows,
                   rows_dropped, output>>

\* full_df[col] raises KeyError for a column no batch had.
HasColumns(df, cols) == cols \subseteq df.cols

\* Lines 61-73: an uncaught KeyError ends the process.
Translate ==
    /\ pc = "Translate"
    /\ IF HasColumns(full_df, {"vehicle_state", "charge_state"})
       THEN /\ full_df' = AssignCols(AssignCols(full_df, {"vehicle_state"}),
                                     {"charge_state"})
            /\ pc' = "CoerceTime"
       ELSE /\ full_df' = IF HasColumns(full_df, {"vehicle_state"})
                          THEN AssignCols(full_df, {"vehicle_state"})
                          ELSE full_df
            /\ pc' = "Aborted"
    /\ UNCHANGED <<tree, all_files, next_file, df_list, warnings, initial_rows,
                   rows_dropped, output>>

\* Lines 75-78.
CoerceTime ==
    /\ pc = "CoerceTime"
    /\ IF HasColumns(full_df, {"record_time"})
       THEN /\ full_df' = AssignCols(full_df, {"record_time"})
            /\ pc' = "CoerceNumeric"
       ELSE /\ full_df' = full_df
            /\ pc' = "Aborted"
    /\ UNCHANGED <<tree, all_files, next_file, df_list, warnings, initial_rows,
                   rows_dropped, output>>

\* Lines 80-86.
CoerceNumeric ==
    /\ pc = "CoerceNumeric"
    /\ IF HasColumns(full_df, numeric_cols)
       THEN /\ full_df' = CoerceNumericCols(full_df)
            /\ pc' = "Dropna"
       ELSE /\ full_df' = full_df
            /\ pc' = "Aborted"
    /\ UNCHANGED <<tree, all_files, next_file, df_list, warnings, initial_rows,
                   rows_dropped, output>>

\* Lines 88-93.
DropRows ==
    /\ pc = "Dropna"
    /\ initial_rows' = Len(full_df.rows)
    /\ full_df' = Dropna(full_df)
    /\ rows_dropped' = initial_rows' - Len(full_df'.rows)
    /\ pc' = "Sort"
    /\ UNCHANGED <<tree, all_files, next_file, df_list, warnings, output>>

\* Lines 95-97.
Sort ==
    /\ pc = "Sort"
    /\ \E q \in SortValues(full_df.rows) : full_df' = Table(full_df.cols, q)
    /\ pc' = "ResetIndex"
    /\ UNCHANGED <<tree, all_files, next_file, df_list, warnings, initial_rows,
                   rows_dropped, output>>

\* Lines 99-100.
Reindex ==
    /\ pc = "ResetIndex"
    /\ full_df' = ResetIndex(full_df)
    /\ pc' = "Writing"
    /\ UNCHANGED <<tree, all_files, next_file, df_list, warnings, initial_rows,
                   rows_dropped, output>>

\* Lines 102-110.
Write ==
    /\ pc = "Writing"
    /\ output' = Written(Parquet(full_df))
    /\ pc' = "Done"
    /\ UNCHANGED <<tree, all_files, next_file, df_list, warnings, full_df,
                   initial_rows, rows_dropped>>

Next ==
    \/ Start
    \/ Discover
    \/ LoadFile
    \/ CheckLoaded
    \/ Unify
    \/ RenameColumns
    \/ Translate
    \/ CoerceTime
    \/ CoerceNumeric
    \/ DropRows
    \/ Sort
    \/ Reindex
    \/ Write

Spec == Init /\ [][Next]_vars

\* ------------------------------------------------- vocabulary of the claims
\* The source columns whose values every output row must have.
RequiredSource ==
    {"record_time", "pack_voltage(V)", "pack_current(A)", "SOC(%)",
     "max_cell_voltage (V)", "min_cell_voltage (V)",
     "max_probe_temperature (C)", "min_probe_temperature (C)"}

\* A source cell that is there and can be parsed as a timestamp / a number.
ParsesAsTime(cell) == cell.k \in {"ts", "timestr", "num"}
ParsesAsNumber(cell) == cell.k \in {"num", "numstr"}

\* Row j of file i of the tree has every required value, parseable.
Usable(i, j) ==
    \A c \in RequiredSource :
        /\ c \in tree[i].cols
        /\ IF c = "record_time" THEN ParsesAsTime(tree[i].rows[j][c])
           ELSE ParsesAsNumber(tree[i].rows[j][c])

\* The files that load, and the places <<file, row>> of their data rows.
LoadableFiles == {i \in 1..Len(tree) : tree[i].kind = "xlsx"}
CorruptFiles == {i \in 1..Len(tree) : tree[i].kind = "corrupt"}
SourcePlaces ==
    UNION {{<<i, j>> : j \in 1..Len(tree[i].rows)} : i \in LoadableFiles}
UnifiedCount == Cardinality(SourcePlaces)
UnusableCount == Cardinality({pl \in SourcePlaces : ~Usable(pl[1], pl[2])})

RECURSIVE PlacesFrom(_)
\* The places of the loadable files' rows in walk order, from file i on.
PlacesFrom(i) ==
    IF i > Len(tree) THEN <<>>
    ELSE (IF tree[i].kind = "xlsx"
          THEN [j \in 1..Len(tree[i].rows) |-> <<i, j>>] ELSE <<>>) \o PlacesFrom(i + 1)

RECURSIVE CorruptFrom(_)
CorruptFrom(i) ==
    IF i > Len(tree) THEN <<>>
    ELSE (IF tree[i].kind = "corrupt" THEN <<i>> ELSE <<>>) \o CorruptFrom(i + 1)

\* The unified table as concatenated and renamed, before any value changed.
Unified == Rename(Concat(df_list))

TimeOf(cells) == cells["record_time"]
AfterDropna == {"Sort", "ResetIndex", "Writing", "Done"}
AfterSort == {"ResetIndex", "Writing", "Done"}

\* --------------------------------------------------------------------- C1
\* C1: the rows handed to the sink are in non-decreasing record_time order:
\* after the sort, and in the written file, every row's timestamp is at most
\* the next row's.
C1_OutputAscending ==
    /\ pc \in AfterSort =>
         \A j \in 1..Len(full_df.rows) - 1 :
            full_df.rows[j].c["record_time"].n <= full_df.rows[j + 1].c["record_time"].n
    /\ output.written =>
         \A j \in 1..Len(output.rows) - 1 :
            /\ TimeOf(output.rows[j]).k = "ts"
            /\ TimeOf(output.rows[j]).n <= TimeOf(output.rows[j + 1]).n

\* A file was written whose two rows were loaded latest first.
C1_Witness ==
    /\ output.written
    /\ Len(output.rows) = 2
    /\ TimeOf(output.rows[1]).n < TimeOf(output.rows[2]).n
    /\ Len(Unified.rows) = 2
    /\ ParsesAsTime(TimeOf(Unified.rows[1].c))
    /\ ParsesAsTime(TimeOf(Unified.rows[2].c))
    /\ TimeOf(Unified.rows[1].c).n > TimeOf(Unified.rows[2].c).n

\* --------------------------------------------------------------------- C2
\* C2: every output row has a timestamp in record_time and a number in each
\* of the seven numeric columns, and every row that survives dropna comes
\* from a source row whose required values were all there and parseable.
C2_RequiredPresent ==
    /\ output.written =>
         \A j \in 1..Len(output.rows) :
            /\ output.rows[j]["record_time"].k = "ts"
            /\ \A c \in {"pack_voltage", "pack_current", "soc", "max_cell_voltage",
                         "min_cell_voltage", "max_temp", "min_temp"} :
                  output.rows[j][c].k = "num"
    /\ pc \in {"Sort", "ResetIndex"} =>
         \A j \in 1..Len(full_df.rows) :
            LET pl == PlacesFrom(1)[full_df.rows[j].idx + 1]
            IN  Usable(pl[1], pl[2])

\* A file was written that holds a row, while a row with an unparseable or
\* empty required value was left out.
C2_Witness ==
    /\ output.written
    /\ Len(output.rows) >= 1
    /\ \E pl \in SourcePlaces :
          /\ tree[pl[1]].cols = FullCols
          /\ ~Usable(pl[1], pl[2])

\* --------------------------------------------------------------------- C3
\* C3: the output has as many rows as the loaded files have data rows, less
\* the rows with a missing or unparseable required value; rows_dropped is
\* that number; sorting and reindexing leave the row count alone.
C3_RowCount ==
    /\ pc \in {"Rename", "Translate", "CoerceTime", "CoerceNumeric", "Dropna"} =>
         Len(full_df.rows) = UnifiedCount
    /\ pc \in AfterDropna =>
         /\ initial_rows = UnifiedCount
         /\ rows_dropped = UnusableCount
         /\ Len(full_df.rows) = UnifiedCount - UnusableCount
    /\ output.written => Len(output.rows) = UnifiedCount - UnusableCount

\* A run that dropped a row with a non-numeric pack voltage and wrote another.
C3_Witness ==
    /\ pc = "Done"
    /\ rows_dropped = 1
    /\ Len(output.rows) = 1
    /\ \E pl \in SourcePlaces :
          /\ "pack_voltage(V)" \in tree[pl[1]].cols
          /\ tree[pl[1]].rows[pl[2]]["pack_voltage(V)"] = Text("n/a")

\* --------------------------------------------------------------------- C4
\* C4: a file is written only when an .xlsx file was found and one loaded;
\* with no .xlsx file found, or none loaded, the run is in Failed, has made
\* no unified table, has written nothing, and takes no further step.
C4_NoOutputWithoutData ==
    /\ output.written => (all_files # <<>> /\ df_list # <<>>)
    /\ (pc \notin {"Init", "Discovering"} /\ LoadableFiles \cup CorruptFiles = {}) =>
         pc = "Failed"
    /\ (pc \notin {"Init", "Discovering", "Loading", "Loaded"} /\ LoadableFiles = {}) =>
         pc = "Failed"
    /\ pc = "Failed" =>
         /\ ~full_df.made
         /\ ~output.written
         /\ LoadableFiles = {}
         /\ ~ENABLED Next

\* The run failed after every file it found failed to parse.
C4_Witness ==
    /\ pc = "Failed"
    /\ Len(all_files) = 2
    /\ Len(warnings) = 2

\* --------------------------------------------------------------------- C5
\* C5: a file that fails to parse is skipped with one warning and the loop
\* goes on; when some file loads the run does not fail, and the unified
\* table holds exactly the rows of the files that loaded, in order.
C5_SkipAndContinue ==
    /\ pc = "Loading" => Len(df_list) + Len(warnings) = next_file - 1
    /\ pc \notin {"Init", "Discovering", "Loading"} /\ all_files # <<>> =>
         /\ warnings = CorruptFrom(1)
         /\ Len(df_list) = Cardinality(LoadableFiles)
    /\ LoadableFiles # {} => pc # "Failed"
    /\ pc = "Rename" =>
         /\ Len(full_df.rows) = Len(PlacesFrom(1))
         /\ \A k \in 1..Len(full_df.rows) :
              LET pl == PlacesFrom(1)[k]
              IN  \A c \in full_df.cols :
                     full_df.rows[k].c[c] =
                        IF c \in tree[pl[1]].cols THEN tree[pl[1]].rows[pl[2]][c] ELSE NaN

\* A run completed with the two rows of one file after skipping another file.
C5_Witness ==
    /\ pc = "Done"
    /\ Len(warnings) = 1
    /\ Len(df_list) = 1
    /\ Len(output.rows) = 2

\* --------------------------------------------------------------------- C6
\* The positions at which the translated columns hold their translated
\* values and every unified row is still there under its concat index.
Translated == {"CoerceTime", "CoerceNumeric", "Dropna"}

StageSteps ==
    {<<"Init", "Discovering">>, <<"Discovering", "Loading">>,
     <<"Discovering", "Failed">>, <<"Loading", "Unifying">>,
     <<"Loading", "Failed">>, <<"Unifying", "Normalizing">>,
     <<"Normalizing", "Sorting">>, <<"Sorting", "Writing">>,
     <<"Writing", "Done">>}

\* C7: every step stays in its stage or takes one of the stage machine's
\* transitions: Failed is entered from Discovering or Loading only, no
\* stage after Loading fails or aborts, Done and Failed are left by no step.
C7_StageMachine ==
    [][Stage(pc') = Stage(pc) \/ <<Stage(pc), Stage(pc')>> \in StageSteps]_vars

\* --------------------------------------------------------------------- C9
\* Rows of equal record_time that differ in another value are in the order
\* of their index labels, the order they had in the unified table.
KeepsTies(rows) ==
    \A a, b \in 1..Len(rows) :
        (/\ a < b
         /\ rows[a].c["record_time"] = rows[b].c["record_time"]
         /\ rows[a].c # rows[b].c)
            => rows[a].idx < rows[b].idx

\* C9: the sort is stable (rows of equal record_time keep the relative
\* order they had in the unified table, which their index labels record)
\* and the rows then get the index 0..n-1 in output order.
C9_StableSort ==
    /\ pc = "ResetIndex" => KeepsTies(full_df.rows)
    /\ pc \in {"Writing", "Done"} =>
         \A a \in 1..Len(full_df.rows) : full_df.rows[a].idx = a - 1

\* -------------------------------------------------------------------- C10
\* The unified table of the batches dfs after the Normalizer's steps.
Normalized(dfs) ==
    Dropna(CoerceNumericCols(AssignCols(
        AssignCols(AssignCols(Rename(Concat(dfs)), {"vehicle_state"}),
                   {"charge_state"}),
        {"record_time"})))

CellsOf(rows) == [j \in 1..Len(rows) |-> rows[j].c]

\* The row sequences the steps after loading can write for the batches dfs.
Outputs(dfs) ==
    {Parquet(ResetIndex(Table(Normalized(dfs).cols, q))).rows :
        q \in SortValues(Normalized(dfs).rows)}

\* The orders in which the loaded batches could have been loaded.
LoadOrders ==
    {[j \in 1..Len(df_list) |-> df_list[f[j]]] : f \in Permutations(Len(df_list))}

\* a and b hold the same rows, each as often.
SameRows(a, b) ==
    /\ Len(a) = Len(b)
    /\ \E f \in Permutations(Len(a)) : \A j \in 1..Len(a) : a[j] = b[f[j]]

\* C10 as stated, for the sorts that keep ties in order: whatever the order
\* in which the batches are loaded, the sorted row sequence is the same.
C10_OrderIndependent ==
    (pc = "ResetIndex" /\ KeepsTies(full_df.rows)) =>
        \A dfs \in LoadOrders :
            \A q \in SortValues(Normalized(dfs).rows) :
                KeepsTies(q) => CellsOf(q) = CellsOf(full_df.rows)

\* C10, amended: whatever the order in which the batches are loaded, the
\* output holds the same rows and the same sequence of record_time values;
\* it is the same row sequence when no two of its rows have the same
\* record_time.
C10_OrderIndependentUpToTies ==
    pc = "Done" =>
        \A dfs \in LoadOrders : \A o \in Outputs(dfs) :
            /\ SameRows(o, output.rows)
            /\ \A j \in 1..Len(o) : TimeOf(o[j]) = TimeOf(output.rows[j])
            /\ (\A a, b \in 1..Len(o) : a # b => TimeOf(o[a]) # TimeOf(o[b]))
                  => o = output.rows

\* A run over two batches, each with a surviving row, the later row loaded
\* first.
C10_Witness ==
    /\ pc = "Done"
    /\ Len(df_list) = 2
    /\ Len(df_list[1].rows) = 1
    /\ Len(df_list[2].rows) = 1
    /\ Len(output.rows) = 2
    /\ TimeOf(df_list[1].rows[1].c).n > TimeOf(df_list[2].rows[1].c).n

====
